---- MODULE Spec2Model ----
(***************************************************************************)
(* Model of the icicle build queue (src/src/build/mod.rs): the shared job  *)
(* DAG, the ready vector, the per-workflow pending counters and the        *)
(* operations add_workflow, update_status, clear_workflow and              *)
(* drain_ready_jobs, each taken under the single state mutex, and of the   *)
(* build executor (src/src/executor/mod.rs) that drains the ready vector   *)
(* and spawns one worker task per job under a semaphore.                   *)
(*                                                                         *)
(* The DAG is a daggy StableDag over a petgraph StableGraph.  The model    *)
(* keeps what the queue's code can observe of it: stable node indices      *)
(* with a LIFO free list of vacant slots, and for the edges their order    *)
(* in the adjacency lists (add_edge links a new edge at the head of both   *)
(* lists, so a walker meets the newest edge first).                        *)
(***************************************************************************)
EXTENDS Integers, Sequences, FiniteSets, TLC

VARIABLES dag_nodes, free_node, edges, drv_to_node, ready, pending_workflows,
          poisoned, last, handed_out, reported, complete_on_add, n_adds, n_calls,
          ready_signal, exec_pc, run_queue, exec_job, workers, semaphore,
          mutex, snapshot, workflows, process_pc

vars == <<dag_nodes, free_node, edges, drv_to_node, ready, pending_workflows,
          poisoned, last, handed_out, reported, complete_on_add, n_adds, n_calls,
          ready_signal, exec_pc, run_queue, exec_job, workers, semaphore,
          mutex, snapshot, workflows, process_pc>>

\* the state of the executor task and of the worker tasks it spawned
exec_vars == <<exec_pc, run_queue, exec_job, workers, semaphore>>

\* the mutex around the queue state, and the jobs the last get_jobs or
\* get_workflow_jobs call returned
sync_vars == <<mutex, snapshot>>

\* the status column of the rows of the workflows table ("" for no row), and
\* where the process_workflow task of each workflow stands
db_vars == <<workflows, process_pc>>

(***************************************************************************)
(* Bounds of the exploration.                                              *)
(***************************************************************************)
\* number of queue calls in a run
MaxCalls == 4
\* number of add_workflow calls in a run
MaxAdds == 2
\* number of derivations in one add_workflow batch
MaxBatch == 2
\* number of input_drvs one derivation declares
MaxInputs == 1
\* ghost counters stop counting here
MaxCount == 2
\* the configured number of build slots (settings.build.max_concurrent_builds)
max_concurrent_builds == 2
\* number of outputs of one derivation
MaxOutputs == 1
\* number of outputs of a derivation whose cache status is asked
MaxQueried == 4

Drvs == {"a", "b", "c"}

Workflows == {1, 2}

\* the statuses update_status is called with: one for each branch of its
\* dispatch (non-terminal, terminal-ok, terminal-err)
StatusInputs == {"Running", "Success", "Failed"}

(***************************************************************************)
(* BuildStatus                                                             *)
(***************************************************************************)
BuildStatus == {"Queued", "Ready", "Running", "Success", "Cached",
                "Failed", "Timedout", "Canceled"}

done(status) == status \in {"Success", "Cached", "Failed", "Timedout", "Canceled"}

error(status) == status \in {"Failed", "Timedout", "Canceled"}

(***************************************************************************)
(* Graph primitives (daggy / petgraph as the queue uses them).             *)
(***************************************************************************)
\* NodeIndex::end(), the index a walker yields for a vacant edge slot
NodeEnd == 0

Vacant == [live |-> FALSE, drv_path |-> "", status |-> "Queued", requested_by |-> {}]

BuildJob(d, status, requested_by) ==
    [live |-> TRUE, drv_path |-> d, status |-> status, requested_by |-> requested_by]

IsNode(s, i) == i \in 1..Len(s.dag_nodes) /\ s.dag_nodes[i].live

\* the node weights of the graph, as get_jobs walks them
LiveNodes(s) == {i \in 1..Len(s.dag_nodes) : s.dag_nodes[i].live}

\* StableGraph::add_node: reuse the most recently vacated slot, else append
NewIndex(s) == IF s.free_node # <<>> THEN Head(s.free_node) ELSE Len(s.dag_nodes) + 1

add_node(s, job) ==
    IF s.free_node # <<>>
    THEN [s EXCEPT !.dag_nodes[Head(s.free_node)] = job, !.free_node = Tail(s.free_node)]
    ELSE [s EXCEPT !.dag_nodes = Append(s.dag_nodes, job)]

EdgeSet(es) == {es[k] : k \in 1..Len(es)}

\* outgoing edges of a node in walk order (newest first)
OutEdges(es, i) == SelectSeq(es, LAMBDA e : e[1] = i)

InEdges(es, i) == SelectSeq(es, LAMBDA e : e[2] = i)

remove_edge(es, e) == SelectSeq(es, LAMBDA x : x # e)

find_edge(es, from, to) == <<from, to>> \in EdgeSet(es)

RECURSIVE ReachFrom(_, _, _)
\* nodes reachable from the set front along outgoing edges (front included)
ReachFrom(es, front, seen) ==
    LET new == {e[2] : e \in {x \in EdgeSet(es) : x[1] \in front}} \ (seen \cup front)
    IN  IF front = {} THEN seen
        ELSE ReachFrom(es, new, seen \cup front)

Descendants(es, i) == ReachFrom(es, {i}, {}) \ {i}

\* Dag::add_edge answers Err(WouldCycle) when to reaches from (or to = from)
WouldCycle(es, from, to) == from \in ReachFrom(es, {to}, {})

\* StableGraph::remove_node: drop the weight and every incident edge, then
\* put the slot at the head of the free list
remove_node(s, i) ==
    [s EXCEPT !.dag_nodes[i] = Vacant,
              !.edges = SelectSeq(s.edges, LAMBDA e : e[1] # i /\ e[2] # i),
              !.free_node = <<i>> \o s.free_node]

(***************************************************************************)
(* Maps with a missing entry (HashMap).                                    *)
(***************************************************************************)
MapPut(m, k, v) == [x \in DOMAIN m \cup {k} |-> IF x = k THEN v ELSE m[x]]

MapDel(m, k) == [x \in DOMAIN m \ {k} |-> m[x]]

EmptyMap == [x \in {} |-> 0]

\* a Vec<i64> of completed workflows, as the number of times each id appears
NoCompletions == [w \in Workflows |-> 0]

(***************************************************************************)
(* The queue state as one value, for the operations that transform it.     *)
(***************************************************************************)
State == [dag_nodes |-> dag_nodes, free_node |-> free_node, edges |-> edges,
          drv_to_node |-> drv_to_node, ready |-> ready,
          pending_workflows |-> pending_workflows]

(***************************************************************************)
(* Inputs: derivations and batches.                                        *)
(***************************************************************************)
RECURSIVE SeqsUpTo(_, _)
\* the sequences over S of length at most n
SeqsUpTo(S, n) ==
    IF n = 0 THEN {<<>>}
    ELSE LET shorter == SeqsUpTo(S, n - 1)
         IN  shorter \cup {Append(q, x) : q \in {r \in shorter : Len(r) = n - 1}, x \in S}

\* The derivations are content-addressed: a drv_path fixes its requisites, so
\* the paths are ordered and a derivation declares inputs among the paths
\* before its own.  What varies from batch to batch is which of them a
\* batch declares (nix/mod.rs keeps those that are jobs of the same
\* evaluation) and whether the declared input is part of the batch.
Requisites(d) == CASE d = "a" -> {}
                   [] d = "b" -> {"a"}
                   [] d = "c" -> {"a", "b"}

Derivation == {d \in [drv_path : Drvs, input_drvs : SeqsUpTo(Drvs, MaxInputs)] :
                  \A k \in 1..Len(d.input_drvs) : d.input_drvs[k] \in Requisites(d.drv_path)}

Batches == SeqsUpTo(Derivation, MaxBatch)

(***************************************************************************)
(* BuildQueueState::add_jobs                                               *)
(***************************************************************************)
RECURSIVE add_nodes(_, _, _, _)
\* first loop of add_jobs: insert the nodes of the batch, from position k on
add_nodes(acc, derivations, k, workflow_id) ==
    IF k > Len(derivations) THEN acc
    ELSE LET d == derivations[k]
             s == acc.s
         IN  IF d.drv_path \in DOMAIN s.drv_to_node
             THEN LET idx == s.drv_to_node[d.drv_path]
                      job == s.dag_nodes[idx]
                  IN  add_nodes(
                        [acc EXCEPT !.s.dag_nodes[idx].requested_by = @ \cup {workflow_id},
                                    !.duplicate_pending_jobs =
                                        IF ~done(job.status) THEN @ + 1 ELSE @],
                        derivations, k + 1, workflow_id)
             ELSE LET is_ready == d.input_drvs = <<>>
                      idx == NewIndex(s)
                      s1 == add_node(s, BuildJob(d.drv_path,
                                                 IF is_ready THEN "Ready" ELSE "Queued",
                                                 {workflow_id}))
                  IN  add_nodes(
                        [acc EXCEPT !.s = [s1 EXCEPT !.drv_to_node =
                                                        MapPut(@, d.drv_path, idx)],
                                    !.new_jobs_count = @ + 1,
                                    !.roots = IF is_ready THEN Append(@, idx) ELSE @],
                        derivations, k + 1, workflow_id)

RECURSIVE EdgeRequests(_, _)
\* the (dep, drv_path) pairs the second loop of add_jobs visits, in order
EdgeRequests(derivations, k) ==
    IF k > Len(derivations) THEN <<>>
    ELSE LET d == derivations[k]
         IN  [j \in 1..Len(d.input_drvs) |-> <<d.input_drvs[j], d.drv_path>>]
             \o EdgeRequests(derivations, k + 1)

RECURSIVE add_edges(_, _, _)
\* second loop of add_jobs; both unwrap()s panic, leaving what was done so far
add_edges(s, reqs, k) ==
    IF k > Len(reqs) THEN [s |-> s, panicked |-> FALSE]
    ELSE LET dep == reqs[k][1]
             to_idx == s.drv_to_node[reqs[k][2]]
         IN  IF dep \notin DOMAIN s.drv_to_node
             THEN [s |-> s, panicked |-> TRUE]
             ELSE LET from_idx == s.drv_to_node[dep]
                  IN  IF find_edge(s.edges, from_idx, to_idx)
                      THEN add_edges(s, reqs, k + 1)
                      ELSE IF WouldCycle(s.edges, from_idx, to_idx)
                      THEN [s |-> s, panicked |-> TRUE]
                      ELSE add_edges([s EXCEPT !.edges = <<<<from_idx, to_idx>>>> \o @],
                                     reqs, k + 1)

\* add_jobs without the final ready.extend(roots): what the second and third
\* steps leave when the roots of the batch are dropped
add_jobs_roots_dropped(s, derivations, workflow_id) ==
    LET acc == add_nodes([s |-> s, roots |-> <<>>, new_jobs_count |-> 0,
                          duplicate_pending_jobs |-> 0],
                         derivations, 1, workflow_id)
        total_pending == acc.new_jobs_count + acc.duplicate_pending_jobs
        s1 == IF total_pending > 0
              THEN [acc.s EXCEPT !.pending_workflows =
                        MapPut(@, workflow_id,
                               (IF workflow_id \in DOMAIN @ THEN @[workflow_id] ELSE 0)
                               + total_pending)]
              ELSE acc.s
        linked == add_edges(s1, EdgeRequests(derivations, 1), 1)
    IN  [s |-> linked.s, panicked |-> linked.panicked,
         ret |-> ~linked.panicked /\ total_pending = 0]

add_jobs(s, derivations, workflow_id) ==
    LET acc == add_nodes([s |-> s, roots |-> <<>>, new_jobs_count |-> 0,
                          duplicate_pending_jobs |-> 0],
                         derivations, 1, workflow_id)
        total_pending == acc.new_jobs_count + acc.duplicate_pending_jobs
        s1 == IF total_pending > 0
              THEN [acc.s EXCEPT !.pending_workflows =
                        MapPut(@, workflow_id,
                               (IF workflow_id \in DOMAIN @ THEN @[workflow_id] ELSE 0)
                               + total_pending)]
              ELSE acc.s
        linked == add_edges(s1, EdgeRequests(derivations, 1), 1)
    IN  IF linked.panicked
        THEN [s |-> linked.s, panicked |-> TRUE, ret |-> FALSE]
        ELSE [s |-> [linked.s EXCEPT !.ready = @ \o acc.roots],
              panicked |-> FALSE, ret |-> total_pending = 0]

(***************************************************************************)
(* BuildQueueState::update_status and the two propagations.  A call in     *)
(* progress is the record c: the state so far, the completed workflows     *)
(* collected so far, how often each node was transitioned by the call, and *)
(* whether an unwrap() has panicked.                                       *)
(***************************************************************************)
Call(s) == [s |-> s, completed |-> NoCompletions, panicked |-> FALSE,
            visits |-> [i \in 1..Len(s.dag_nodes) |-> 0]]

RECURSIVE decrement(_, _)
\* "Decrement workflow counters for this job": the loop over requested_by
decrement(c, todo) ==
    IF todo = {} THEN c
    ELSE LET workflow_id == CHOOSE w \in todo : TRUE
             pw == c.s.pending_workflows
         IN  IF workflow_id \in DOMAIN pw
             THEN LET count == IF pw[workflow_id] > 0 THEN pw[workflow_id] - 1 ELSE 0
                  IN  IF count = 0
                      THEN decrement([c EXCEPT !.completed[workflow_id] = @ + 1,
                                               !.s.pending_workflows = MapDel(@, workflow_id)],
                                     todo \ {workflow_id})
                      ELSE decrement([c EXCEPT !.s.pending_workflows[workflow_id] = count],
                                     todo \ {workflow_id})
             ELSE decrement(c, todo \ {workflow_id})

\* job.status = status, then the counter loop
set_terminal(c, id, status) ==
    decrement([c EXCEPT !.s.dag_nodes[id].status = status, !.visits[id] = @ + 1],
              c.s.dag_nodes[id].requested_by)

\* the first edge of a walker, and the edge its cursor moves to after e
FirstEdge(es) == IF es = <<>> THEN <<>> ELSE Head(es)

NextEdge(es, e) ==
    LET k == CHOOSE j \in 1..Len(es) : es[j] = e
    IN  IF k = Len(es) THEN <<>> ELSE es[k + 1]

RECURSIVE propagate_error(_, _, _)
RECURSIVE cancel_children(_, _, _)
propagate_error(c, id, status) ==
    IF ~IsNode(c.s, id)
    THEN [c EXCEPT !.panicked = TRUE]
    ELSE LET c1 == set_terminal(c, id, status)
             c2 == [c1 EXCEPT !.s.edges = SelectSeq(@, LAMBDA e : e[2] # id)]
         IN  cancel_children(c2, id, FirstEdge(OutEdges(c2.s.edges, id)))

\* the children walk of propagate_error with its cursor on edge cur.  The
\* cursor was read before the recursion into the previous child; when that
\* recursion removed the edge, the slot is vacant and the walker yields
\* NodeIndex::end()
cancel_children(c, id, cur) ==
    IF cur = <<>> THEN c
    ELSE IF cur \notin EdgeSet(c.s.edges)
    THEN propagate_error([c EXCEPT !.s.ready = Append(@, NodeEnd)], NodeEnd, "Canceled")
    ELSE LET n == cur[2]
             nxt == NextEdge(OutEdges(c.s.edges, id), cur)
             c1 == propagate_error([c EXCEPT !.s.ready = Append(@, n)], n, "Canceled")
         IN  IF c1.panicked THEN c1 ELSE cancel_children(c1, id, nxt)

RECURSIVE promote_children(_, _, _)
\* the children walk of propagate_success over the outgoing edges es of id
promote_children(c, es, k) ==
    IF k > Len(es) THEN c
    ELSE LET n == es[k][2]
             c1 == [c EXCEPT !.s.edges = remove_edge(@, es[k])]
             nparents == Len(InEdges(c1.s.edges, n))
         IN  IF nparents = 0
             THEN promote_children([c1 EXCEPT !.s.dag_nodes[n].status = "Ready",
                                              !.s.ready = Append(@, n)],
                                   es, k + 1)
             ELSE promote_children(c1, es, k + 1)

propagate_success(c, id, status) ==
    LET c1 == set_terminal(c, id, status)
    IN  promote_children(c1, OutEdges(c1.s.edges, id), 1)

\* update_status looking the path up with unwrap(), as add_jobs does
update_status_unwrap(s, drv_path, status) ==
    IF drv_path \notin DOMAIN s.drv_to_node THEN [Call(s) EXCEPT !.panicked = TRUE]
    ELSE LET id == s.drv_to_node[drv_path]
         IN  IF error(status) THEN propagate_error(Call(s), id, status)
             ELSE IF done(status) THEN propagate_success(Call(s), id, status)
             ELSE [Call(s) EXCEPT !.s.dag_nodes[id].status = status]

update_status(s, drv_path, status) ==
    IF drv_path \notin DOMAIN s.drv_to_node THEN Call(s)
    ELSE LET id == s.drv_to_node[drv_path]
         IN  IF error(status) THEN propagate_error(Call(s), id, status)
             ELSE IF done(status) THEN propagate_success(Call(s), id, status)
             ELSE [Call(s) EXCEPT !.s.dag_nodes[id].status = status]

(***************************************************************************)
(* BuildQueueState::clear_workflow.  The loop runs over a clone of         *)
(* drv_to_node in the HashMap's iteration order, here the sequence order.  *)
(***************************************************************************)
RECURSIVE clear_workflow_requested(_, _, _, _)
\* clear_workflow deleting every node the workflow requested, shared or not
clear_workflow_requested(s, order, k, workflow_id) ==
    IF k > Len(order) THEN s
    ELSE LET d == order[k]
             i == s.drv_to_node[d]
         IN  IF workflow_id \in s.dag_nodes[i].requested_by
             THEN clear_workflow_requested(
                      [remove_node(s, i) EXCEPT !.drv_to_node = MapDel(@, d)],
                      order, k + 1, workflow_id)
             ELSE clear_workflow_requested(s, order, k + 1, workflow_id)

RECURSIVE clear_workflow(_, _, _, _)
clear_workflow(s, order, k, workflow_id) ==
    IF k > Len(order) THEN s
    ELSE LET d == order[k]
             i == s.drv_to_node[d]
             s1 == [s EXCEPT !.dag_nodes[i].requested_by = @ \ {workflow_id}]
         IN  IF s1.dag_nodes[i].requested_by = {}
             THEN clear_workflow([remove_node(s1, i) EXCEPT !.drv_to_node = MapDel(@, d)],
                                 order, k + 1, workflow_id)
             ELSE clear_workflow(s1, order, k + 1, workflow_id)

\* the iteration orders of a map's keys
Orders(m) == {q \in SeqsUpTo(DOMAIN m, Cardinality(DOMAIN m)) :
                 Len(q) = Cardinality(DOMAIN m) /\ EdgeSet(q) = DOMAIN m}

(***************************************************************************)
(* BuildQueue::drain_ready_jobs: the snapshots, or a panic on a handle     *)
(* that is no node (the ready vector has been swapped out by then).        *)
(***************************************************************************)
\* drain_ready_jobs marking what it hands out as Running
drain_ready_jobs_running(s) ==
    [s |-> [s EXCEPT !.ready = <<>>,
                     !.dag_nodes = [i \in 1..Len(s.dag_nodes) |->
                                       IF \E k \in 1..Len(s.ready) : s.ready[k] = i
                                       THEN [s.dag_nodes[i] EXCEPT !.status = "Running"]
                                       ELSE s.dag_nodes[i]]],
     panicked |-> \E k \in 1..Len(s.ready) : ~IsNode(s, s.ready[k]),
     ret |-> [k \in 1..Len(s.ready) |->
                 IF IsNode(s, s.ready[k])
                 THEN [s.dag_nodes[s.ready[k]] EXCEPT !.status = "Running"]
                 ELSE Vacant]]

drain_ready_jobs(s) ==
    [s |-> [s EXCEPT !.ready = <<>>],
     panicked |-> \E k \in 1..Len(s.ready) : ~IsNode(s, s.ready[k]),
     ret |-> [k \in 1..Len(s.ready) |->
                 IF IsNode(s, s.ready[k]) THEN s.dag_nodes[s.ready[k]] ELSE Vacant]]

(***************************************************************************)
(* The machine.  Besides the queue state: poisoned is the state mutex      *)
(* after a panic under the lock (every later lock().unwrap() panics);      *)
(* last records the latest call and what it returned; handed_out counts,   *)
(* per node, the snapshots drain_ready_jobs returned since the node was    *)
(* added; reported counts, per workflow, the update_status calls that      *)
(* returned it as completed, and complete_on_add the add_workflow calls    *)
(* that returned true for it; n_adds and n_calls count the calls.          *)
(***************************************************************************)
Min(x, y) == IF x < y THEN x ELSE y

Bump(n) == Min(MaxCount, n + 1)

\* no upload: the output query is not made and nothing is pushed
NoUpload == [queried |-> FALSE, pushes |-> <<>>]

NoCall == [op |-> "new", workflow_id |-> 0, drv_path |-> "", status |-> "",
           derivations |-> <<>>, complete |-> FALSE, completed |-> NoCompletions,
           panicked |-> FALSE, result |-> "", upload |-> NoUpload, attempted |-> 0,
           outputs |-> <<>>, ret |-> "", queried |-> 0]

Install(s) ==
    /\ dag_nodes' = s.dag_nodes
    /\ free_node' = s.free_node
    /\ edges' = s.edges
    /\ drv_to_node' = s.drv_to_node
    /\ ready' = s.ready
    /\ pending_workflows' = s.pending_workflows

\* the queue state of BuildQueue::default()
EmptyState == [dag_nodes |-> <<>>, free_node |-> <<>>, edges |-> <<>>,
               drv_to_node |-> EmptyMap, ready |-> <<>>,
               pending_workflows |-> EmptyMap]

\* the mutex with no call inside; while a call of update_status holds it,
\* before is the queue state the call found
Unlocked == [held |-> FALSE, drv_path |-> "", status |-> "", before |-> EmptyState]

\* a lock() that does not wait for the holder of the mutex
lock_not_exclusive(m) == TRUE

\* Mutex::lock returns when no other call holds the mutex
lock(m) == ~m.held

NoWorkers == [d \in Drvs |-> [cache |-> 0, build |-> 0, started |-> 0]]

Init ==
    /\ dag_nodes = <<>>
    /\ free_node = <<>>
    /\ edges = <<>>
    /\ drv_to_node = EmptyMap
    /\ ready = <<>>
    /\ pending_workflows = EmptyMap
    /\ poisoned = FALSE
    /\ last = NoCall
    /\ handed_out = <<>>
    /\ reported = NoCompletions
    /\ complete_on_add = NoCompletions
    /\ n_adds = 0
    /\ n_calls = 0
    /\ ready_signal = FALSE
    /\ exec_pc = "top"
    /\ run_queue = <<>>
    /\ exec_job = Vacant
    /\ workers = NoWorkers
    /\ semaphore = max_concurrent_builds
    /\ workflows = [w \in Workflows |-> ""]
    /\ process_pc = [w \in Workflows |-> "none"]
    /\ mutex = Unlocked
    /\ snapshot = <<>>

\* the queue state is left as it is
QueueUnchanged ==
    UNCHANGED <<dag_nodes, free_node, edges, drv_to_node, ready, pending_workflows>>

\* BuildQueue::add_workflow under the lock: add_jobs, then notify_one when
\* the ready vector is not empty
QueueAddWorkflow(derivations, workflow_id) ==
    LET r == add_jobs(State, derivations, workflow_id)
    IN  /\ Install(r.s)
        /\ poisoned' = r.panicked
        /\ last' = [NoCall EXCEPT !.op = "add_workflow", !.workflow_id = workflow_id,
                                  !.derivations = derivations, !.complete = r.ret,
                                  !.panicked = r.panicked]
        /\ handed_out' = [i \in 1..Len(r.s.dag_nodes) |->
                             IF IsNode(State, i) THEN handed_out[i] ELSE 0]
        /\ complete_on_add' = IF r.ret THEN [complete_on_add EXCEPT ![workflow_id] = Bump(@)]
                              ELSE complete_on_add
        /\ ready_signal' = (ready_signal \/ (~r.panicked /\ r.s.ready # <<>>))
        /\ UNCHANGED reported

\* BuildQueue::update_status under the lock, then notify_one when the ready
\* vector is not empty
QueueUpdateStatusFor(drv_path, status, call) ==
    LET c == update_status(State, drv_path, status)
    IN  /\ Install(c.s)
        /\ poisoned' = c.panicked
        /\ last' = [call EXCEPT !.op = "update_status", !.drv_path = drv_path,
                                  !.status = status,
                                  !.completed = IF c.panicked THEN NoCompletions
                                                ELSE c.completed,
                                  !.panicked = c.panicked]
        /\ reported' = IF c.panicked THEN reported
                       ELSE [w \in Workflows |->
                                IF c.completed[w] > 0 THEN Bump(reported[w])
                                ELSE reported[w]]
        /\ ready_signal' = (ready_signal \/ (~c.panicked /\ c.s.ready # <<>>))
        /\ UNCHANGED <<handed_out, complete_on_add>>

QueueUpdateStatus(drv_path, status) == QueueUpdateStatusFor(drv_path, status, NoCall)

\* BuildQueue::drain_ready_jobs under the lock
QueueDrainReadyJobs ==
    LET r == drain_ready_jobs(State)
    IN  /\ Install(r.s)
        /\ poisoned' = r.panicked
        /\ handed_out' = IF r.panicked THEN handed_out
                         ELSE [i \in 1..Len(handed_out) |->
                                  Min(MaxCount, handed_out[i] +
                                      Cardinality({k \in 1..Len(ready) : ready[k] = i}))]
        /\ UNCHANGED <<reported, complete_on_add, ready_signal>>

\* BuildQueue::add_workflow
AddWorkflow(derivations, workflow_id) ==
    /\ lock(mutex)
    /\ ~poisoned
    /\ n_calls < MaxCalls
    /\ n_adds < MaxAdds
    /\ QueueAddWorkflow(derivations, workflow_id)
    /\ n_adds' = n_adds + 1
    /\ n_calls' = n_calls + 1
    /\ UNCHANGED exec_vars
    /\ UNCHANGED sync_vars /\ UNCHANGED db_vars

\* BuildQueue::update_status
UpdateStatus(drv_path, status) ==
    /\ lock(mutex)
    /\ ~poisoned
    /\ n_calls < MaxCalls
    /\ QueueUpdateStatus(drv_path, status)
    /\ n_calls' = n_calls + 1
    /\ UNCHANGED n_adds
    /\ UNCHANGED exec_vars
    /\ UNCHANGED sync_vars /\ UNCHANGED db_vars

\* BuildQueue::clear_workflow
ClearWorkflow(workflow_id) ==
    /\ lock(mutex)
    /\ ~poisoned
    /\ n_calls < MaxCalls
    /\ \E order \in Orders(drv_to_node) :
          Install(clear_workflow(State, order, 1, workflow_id))
    /\ last' = [NoCall EXCEPT !.op = "clear_workflow", !.workflow_id = workflow_id]
    /\ n_calls' = n_calls + 1
    /\ UNCHANGED <<poisoned, handed_out, reported, complete_on_add, n_adds, ready_signal>>
    /\ UNCHANGED exec_vars
    /\ UNCHANGED sync_vars /\ UNCHANGED db_vars

\* BuildQueue::drain_ready_jobs
DrainReadyJobs ==
    /\ lock(mutex)
    /\ ~poisoned
    /\ n_calls < MaxCalls
    /\ QueueDrainReadyJobs
    /\ last' = [NoCall EXCEPT !.op = "drain_ready_jobs", !.panicked = poisoned']
    /\ n_calls' = n_calls + 1
    /\ UNCHANGED n_adds
    /\ UNCHANGED exec_vars
    /\ UNCHANGED sync_vars /\ UNCHANGED db_vars

Next ==
    \/ \E derivations \in Batches, workflow_id \in Workflows :
          AddWorkflow(derivations, workflow_id)
    \/ \E drv_path \in Drvs, status \in StatusInputs : UpdateStatus(drv_path, status)
    \/ \E workflow_id \in Workflows : ClearWorkflow(workflow_id)
    \/ DrainReadyJobs

\* the queue under every sequence of calls of its public operations
Spec == Init /\ [][Next]_vars

(***************************************************************************)
(* BuildExecutor (src/src/executor/mod.rs).  exec_pc is the await point    *)
(* the run loop stands at: "top" (the loop head; with an empty run_queue   *)
(* it is suspended in wait_for_ready_jobs), "drain" (woken, about to call  *)
(* drain_ready_jobs), "acquire" (suspended in acquire_owned with the       *)
(* popped job in exec_job) and "dead" (the task has panicked).             *)
(* ready_signal is the permit of the tokio Notify.  workers counts, per    *)
(* derivation, the spawned execute_build tasks before their first          *)
(* update_status (cache) and while the build command runs (build); each    *)
(* holds one permit of the semaphore, which has semaphore permits left.    *)
(***************************************************************************)
\* the permits when a worker's permit is given back as soon as it is spawned
PermitsNotHeld == max_concurrent_builds

Permits == semaphore

\* a worker task that ends without giving its permit back
leak_permit(n) == n

\* drop(permit), or the drop of the task's captured permit when it unwinds
drop_permit(n) == n + 1

\* run(), from the pop of the loop to its next await, on the local queue q
Dispatch(q) ==
    IF q = <<>>
    THEN /\ exec_pc' = "dead"
         /\ UNCHANGED <<run_queue, exec_job>>
    ELSE /\ run_queue' = Tail(q)
         /\ IF error(Head(q).status)
            THEN exec_pc' = "top" /\ UNCHANGED exec_job
            ELSE IF Head(q).status # "Ready"
            THEN exec_pc' = "dead" /\ UNCHANGED exec_job
            ELSE exec_pc' = "acquire" /\ exec_job' = Head(q)

\* run(): wait_for_ready_jobs returns, taking the permit of the Notify
ExecWait ==
    /\ exec_pc = "top"
    /\ run_queue = <<>>
    /\ ready_signal
    /\ ready_signal' = FALSE
    /\ exec_pc' = "drain"
    /\ last' = [NoCall EXCEPT !.op = "wait_for_ready_jobs"]
    /\ QueueUnchanged
    /\ UNCHANGED sync_vars /\ UNCHANGED db_vars
    /\ UNCHANGED <<poisoned, handed_out, reported, complete_on_add, n_adds, n_calls,
                   run_queue, exec_job, workers, semaphore>>

\* run(): drain_ready_jobs into run_queue, then on to the next await
ExecDrain ==
    /\ exec_pc = "drain"
    /\ lock(mutex)
    /\ IF poisoned
       THEN /\ exec_pc' = "dead"
            /\ QueueUnchanged
            /\ UNCHANGED <<poisoned, handed_out, reported, complete_on_add, ready_signal,
                           run_queue, exec_job>>
       ELSE /\ QueueDrainReadyJobs
            /\ IF poisoned'
               THEN exec_pc' = "dead" /\ UNCHANGED <<run_queue, exec_job>>
               ELSE Dispatch(drain_ready_jobs(State).ret)
    /\ last' = [NoCall EXCEPT !.op = "drain_ready_jobs", !.panicked = (exec_pc' = "dead")]
    /\ UNCHANGED sync_vars /\ UNCHANGED db_vars
    /\ UNCHANGED <<n_adds, n_calls, workers, semaphore>>

\* run(): the loop head with jobs left in run_queue
ExecPop ==
    /\ exec_pc = "top"
    /\ run_queue # <<>>
    /\ Dispatch(run_queue)
    /\ last' = [NoCall EXCEPT !.op = "pop", !.panicked = (exec_pc' = "dead")]
    /\ QueueUnchanged
    /\ UNCHANGED sync_vars /\ UNCHANGED db_vars
    /\ UNCHANGED <<poisoned, handed_out, reported, complete_on_add, n_adds, n_calls,
                   ready_signal, workers, semaphore>>

\* run(): acquire_owned returns a permit and the worker task is spawned
ExecSpawn ==
    /\ exec_pc = "acquire"
    /\ Permits > 0
    /\ semaphore' = semaphore - 1
    /\ workers' = [workers EXCEPT ![exec_job.drv_path].cache = @ + 1]
    /\ exec_pc' = "top"
    /\ exec_job' = Vacant
    /\ last' = [NoCall EXCEPT !.op = "spawn", !.drv_path = exec_job.drv_path]
    /\ QueueUnchanged
    /\ UNCHANGED sync_vars /\ UNCHANGED db_vars
    /\ UNCHANGED <<poisoned, handed_out, reported, complete_on_add, n_adds, n_calls,
                   ready_signal, run_queue>>

\* a worker's update_status call; on a poisoned mutex lock().unwrap() panics
WorkerUpdateStatusFor(drv_path, status, call) ==
    /\ lock(mutex)
    /\ IF poisoned
       THEN /\ QueueUnchanged
            /\ last' = [call EXCEPT !.op = "update_status", !.drv_path = drv_path,
                                    !.status = status, !.panicked = TRUE]
            /\ UNCHANGED <<poisoned, handed_out, reported, complete_on_add, ready_signal>>
       ELSE QueueUpdateStatusFor(drv_path, status, call)
    /\ UNCHANGED sync_vars /\ UNCHANGED db_vars
    /\ UNCHANGED <<n_adds, n_calls, exec_pc, run_queue, exec_job>>

WorkerUpdateStatus(drv_path, status) == WorkerUpdateStatusFor(drv_path, status, NoCall)

\* execute_build up to the build command: the cache query, then Cached (and
\* the task ends) or Running
WorkerCheckCache(drv_path, cached) ==
    /\ workers[drv_path].cache > 0
    /\ WorkerUpdateStatus(drv_path, IF cached THEN "Cached" ELSE "Running")
    /\ workers' = [workers EXCEPT ![drv_path] =
                      [cache |-> @.cache - 1,
                       build |-> IF cached \/ last'.panicked THEN @.build ELSE @.build + 1,
                       started |-> IF cached \/ last'.panicked THEN @.started
                                   ELSE Min(MaxCount, @.started + 1)]]
    /\ semaphore' = IF cached \/ last'.panicked THEN drop_permit(semaphore) ELSE semaphore

\* how the build command ends: it exits with success, exits with a failure,
\* or is still running when build_timeout elapses
BuildResults == {"ok", "failed", "timeout"}

\* what the upload meets: whether nix-store --query --outputs succeeds and,
\* for each output it lists, whether attic push succeeds
UploadInputs ==
    {NoUpload} \cup {[queried |-> TRUE, pushes |-> q] : q \in SeqsUpTo(BOOLEAN, MaxOutputs)}

BuildOutcomes ==
    {[result |-> "ok", upload |-> u] : u \in UploadInputs}
        \cup {[result |-> r, upload |-> NoUpload] : r \in BuildResults \ {"ok"}}

\* CacheClient::upload_path on the output whose push succeeds or not
upload_path(pushed) == IF pushed THEN "Ok" ELSE "Err"

\* CacheClient::upload_derivation_outputs: the loop over the outputs, from
\* the output k on
RECURSIVE upload_derivation_outputs(_, _)
upload_derivation_outputs(pushes, k) ==
    IF k > Len(pushes)
    THEN [attempted |-> 0, warned |-> 0, ret |-> "Ok"]
    ELSE LET rest == upload_derivation_outputs(pushes, k + 1)
         IN  IF upload_path(pushes[k]) = "Err"
             THEN [rest EXCEPT !.attempted = @ + 1, !.warned = @ + 1]
             ELSE [rest EXCEPT !.attempted = @ + 1]

\* Executor::upload_to_cache
upload_to_cache(upload) ==
    IF ~upload.queried
    THEN [attempted |-> 0, warned |-> 0, ret |-> "Err"]
    ELSE upload_derivation_outputs(upload.pushes, 1)

\* execute_build with a build that counts as failed when its upload does
final_status_of_upload(result, uploaded) ==
    IF result = "ok" /\ uploaded.ret = "Ok" /\ uploaded.warned = 0 THEN "Success"
    ELSE "Failed"

\* execute_build: the status chosen from the result of the build command and
\* of the upload; an upload error is only logged, a timeout is Failed
final_status(result, uploaded) ==
    CASE result = "ok"      -> "Success"
      [] result = "failed"  -> "Failed"
      [] result = "timeout" -> "Failed"

\* execute_build from the end of the build command
WorkerBuildEnd(drv_path, outcome) ==
    LET uploaded == IF outcome.result = "ok" THEN upload_to_cache(outcome.upload)
                    ELSE [attempted |-> 0, warned |-> 0, ret |-> "Ok"]
    IN  /\ workers[drv_path].build > 0
        /\ WorkerUpdateStatusFor(drv_path, final_status(outcome.result, uploaded),
                                 [NoCall EXCEPT !.result = outcome.result,
                                                !.upload = outcome.upload,
                                                !.attempted = uploaded.attempted])
        /\ workers' = [workers EXCEPT ![drv_path].build = @ - 1]
        /\ semaphore' = drop_permit(semaphore)

\* the batches the webhook hands over in this specification: an evaluation
\* lists each job once, here in the order of the paths
ExecBatches == {q \in Batches : \A k \in 1..Len(q) - 1 :
                                   \E j \in {"ab", "ac", "bc"} :
                                      j = q[k].drv_path \o q[k + 1].drv_path}

ExecNext ==
    \/ \E derivations \in ExecBatches, workflow_id \in Workflows :
          AddWorkflow(derivations, workflow_id)
    \/ ExecWait
    \/ ExecDrain
    \/ ExecPop
    \/ ExecSpawn
    \/ \E drv_path \in Drvs, cached \in BOOLEAN : WorkerCheckCache(drv_path, cached)
    \/ \E drv_path \in Drvs, outcome \in BuildOutcomes : WorkerBuildEnd(drv_path, outcome)

\* the queue with add_workflow calls from outside and the executor and its
\* workers as the only callers of drain_ready_jobs and update_status
ExecSpec == Init /\ [][ExecNext]_vars

\* the workflows whose batches arrive in the specification with fairness
LiveWorkflows == {1}

\* the build outcomes in the specification with fairness: a build that
\* succeeds and has no output to push, and a build that fails (a timeout
\* takes the branch of execute_build that chooses the same status)
LiveOutcomes ==
    {[result |-> "ok", upload |-> [queried |-> TRUE, pushes |-> <<>>]],
     [result |-> "failed", upload |-> NoUpload]}

LiveNext ==
    \/ \E derivations \in ExecBatches, workflow_id \in LiveWorkflows :
          AddWorkflow(derivations, workflow_id)
    \/ ExecWait
    \/ ExecDrain
    \/ ExecPop
    \/ ExecSpawn
    \/ \E drv_path \in Drvs, cached \in BOOLEAN : WorkerCheckCache(drv_path, cached)
    \/ \E drv_path \in Drvs, outcome \in LiveOutcomes : WorkerBuildEnd(drv_path, outcome)

\* the executor with the batches of one workflow and with the tokio runtime
\* running every task that can run: the executor is resumed when its await
\* can return, and every cache query and every build command ends
ExecFairSpec ==
    /\ Init
    /\ [][LiveNext]_vars
    /\ WF_vars(ExecWait)
    /\ WF_vars(ExecDrain)
    /\ WF_vars(ExecPop)
    /\ WF_vars(ExecSpawn)
    /\ \A drv_path \in Drvs :
          /\ WF_vars(\E cached \in BOOLEAN : WorkerCheckCache(drv_path, cached))
          /\ WF_vars(\E outcome \in LiveOutcomes : WorkerBuildEnd(drv_path, outcome))

(***************************************************************************)
(* The mutex.  Every public operation of BuildQueue runs its whole body    *)
(* between lock() and the drop of the guard.  Here update_status is taken  *)
(* in two steps, with the state it leaves in between in the queue          *)
(* variables: from lock() to the assignment job.status = status, and from  *)
(* there to its end.                                                       *)
(***************************************************************************)
\* BuildQueue::get_jobs: the node weights in index order
get_jobs(s) == SelectSeq(s.dag_nodes, LAMBDA j : j.live)

\* BuildQueue::get_workflow_jobs
get_workflow_jobs(s, workflow_id) ==
    SelectSeq(s.dag_nodes, LAMBDA j : j.live /\ workflow_id \in j.requested_by)

\* a call that reads the queue under the lock and returns jobs
ReadJobs(op, workflow_id, jobs) ==
    /\ ~poisoned
    /\ n_calls < MaxCalls
    /\ snapshot' = jobs
    /\ last' = [NoCall EXCEPT !.op = op, !.workflow_id = workflow_id]
    /\ n_calls' = n_calls + 1
    /\ QueueUnchanged
    /\ UNCHANGED <<poisoned, handed_out, reported, complete_on_add, n_adds,
                   ready_signal, mutex>>
    /\ UNCHANGED exec_vars /\ UNCHANGED db_vars

GetJobs ==
    /\ lock(mutex)
    /\ ReadJobs("get_jobs", 0, get_jobs(State))

GetWorkflowJobs(workflow_id) ==
    /\ lock(mutex)
    /\ ReadJobs("get_workflow_jobs", workflow_id, get_workflow_jobs(State, workflow_id))

\* BuildQueue::update_status from lock() to the assignment of the status in
\* propagate_error, propagate_success or update_status; a call for an unknown
\* path returns at once
UpdateStatusBegin(drv_path, status) ==
    IF drv_path \in DOMAIN drv_to_node /\ IsNode(State, drv_to_node[drv_path])
    THEN /\ lock(mutex)
         /\ ~poisoned
         /\ n_calls < MaxCalls
         /\ mutex' = [held |-> TRUE, drv_path |-> drv_path, status |-> status,
                      before |-> State]
         /\ dag_nodes' = [dag_nodes EXCEPT ![drv_to_node[drv_path]].status = status]
         /\ last' = [NoCall EXCEPT !.op = "lock", !.drv_path = drv_path,
                                   !.status = status]
         /\ n_calls' = n_calls + 1
         /\ UNCHANGED <<free_node, edges, drv_to_node, ready, pending_workflows,
                        poisoned, handed_out, reported, complete_on_add, n_adds,
                        ready_signal, snapshot>>
         /\ UNCHANGED exec_vars /\ UNCHANGED db_vars
    ELSE UpdateStatus(drv_path, status)

\* BuildQueue::update_status from the assignment of the status to the drop
\* of the guard: the counters, the cascade or the promotion, notify_one
UpdateStatusEnd ==
    /\ mutex.held
    /\ QueueUpdateStatus(mutex.drv_path, mutex.status)
    /\ mutex' = Unlocked
    /\ UNCHANGED <<n_adds, n_calls, snapshot>>
    /\ UNCHANGED exec_vars /\ UNCHANGED db_vars

AtomicNext ==
    \/ \E derivations \in ExecBatches, workflow_id \in Workflows :
          AddWorkflow(derivations, workflow_id)
    \/ \E drv_path \in Drvs, status \in StatusInputs : UpdateStatusBegin(drv_path, status)
    \/ UpdateStatusEnd
    \/ GetJobs
    \/ \E workflow_id \in Workflows : GetWorkflowJobs(workflow_id)
    \/ DrainReadyJobs

\* the queue with callers that run concurrently: a call of update_status is
\* inside the queue while other callers arrive
AtomicSpec == Init /\ [][AtomicNext]_vars

(***************************************************************************)
(* add_workflow with any batch a caller can build: a derivation may list   *)
(* any path as its input, its own and those of later derivations included. *)
(***************************************************************************)
AnyDerivation == [drv_path : Drvs, input_drvs : SeqsUpTo(Drvs, MaxInputs)]

AnyBatches == SeqsUpTo(AnyDerivation, MaxBatch)

CycleNext ==
    \/ \E derivations \in AnyBatches, workflow_id \in LiveWorkflows :
          AddWorkflow(derivations, workflow_id)
    \/ \E drv_path \in Drvs, status \in StatusInputs : UpdateStatus(drv_path, status)
    \/ DrainReadyJobs

\* the queue under the calls of one workflow with unrestricted batches
CycleSpec == Init /\ [][CycleNext]_vars

(***************************************************************************)
(* The webhook (src/src/webhook/mod.rs).  create_workflow inserts the row  *)
(* of a workflow, whose id is the fresh row id, and spawns the task        *)
(* process_workflow; the task sets the row to Running, evaluates the       *)
(* repository and hands the derivations to the queue (add_workflow, as     *)
(* src/src/build/mod.rs has it).  process_pc is "none" before the row      *)
(* exists, "start" and "evaluate" at the awaits of the task, "done" after. *)
(***************************************************************************)
\* what evaluate_repository returns: an error (the clone, the checkout or
\* the enumeration of the jobs failed) or the derivations
Evaluations ==
    {[ok |-> FALSE, derivations |-> <<>>]}
        \cup {[ok |-> TRUE, derivations |-> q] : q \in ExecBatches}

\* create_workflow
CreateWorkflow(workflow_id) ==
    /\ workflows[workflow_id] = ""
    /\ workflows' = [workflows EXCEPT ![workflow_id] = "Pending"]
    /\ process_pc' = [process_pc EXCEPT ![workflow_id] = "start"]
    /\ last' = [NoCall EXCEPT !.op = "create_workflow", !.workflow_id = workflow_id]
    /\ QueueUnchanged
    /\ UNCHANGED <<poisoned, handed_out, reported, complete_on_add, n_adds, n_calls,
                   ready_signal>>
    /\ UNCHANGED exec_vars /\ UNCHANGED sync_vars

\* process_workflow up to the evaluation: the row is set to Running
ProcessStart(workflow_id) ==
    /\ process_pc[workflow_id] = "start"
    /\ workflows' = [workflows EXCEPT ![workflow_id] = "Running"]
    /\ process_pc' = [process_pc EXCEPT ![workflow_id] = "evaluate"]
    /\ last' = [NoCall EXCEPT !.op = "process_workflow", !.workflow_id = workflow_id]
    /\ QueueUnchanged
    /\ UNCHANGED <<poisoned, handed_out, reported, complete_on_add, n_adds, n_calls,
                   ready_signal>>
    /\ UNCHANGED exec_vars /\ UNCHANGED sync_vars

\* process_workflow from the result of evaluate_repository to its end: an
\* error is returned to the spawned closure, which logs it; the derivations
\* go to the queue
ProcessEvaluate(workflow_id, evaluated) ==
    /\ process_pc[workflow_id] = "evaluate"
    /\ lock(mutex)
    /\ process_pc' = [process_pc EXCEPT ![workflow_id] = "done"]
    /\ IF ~evaluated.ok \/ poisoned
       THEN /\ last' = [NoCall EXCEPT !.op = "evaluate_repository",
                                      !.workflow_id = workflow_id,
                                      !.ret = IF evaluated.ok THEN "Ok" ELSE "Err",
                                      !.panicked = evaluated.ok]
            /\ QueueUnchanged
            /\ UNCHANGED <<poisoned, handed_out, reported, complete_on_add, ready_signal>>
       ELSE QueueAddWorkflow(evaluated.derivations, workflow_id)
    /\ UNCHANGED <<workflows, n_adds, n_calls>>
    /\ UNCHANGED exec_vars /\ UNCHANGED sync_vars

WebhookNext ==
    \/ \E workflow_id \in Workflows : CreateWorkflow(workflow_id)
    \/ \E workflow_id \in Workflows : ProcessStart(workflow_id)
    \/ \E workflow_id \in Workflows, evaluated \in Evaluations :
          ProcessEvaluate(workflow_id, evaluated)
    \/ ExecWait
    \/ ExecDrain
    \/ ExecPop
    \/ ExecSpawn
    \/ \E drv_path \in Drvs, cached \in BOOLEAN : WorkerCheckCache(drv_path, cached)
    \/ \E drv_path \in Drvs, outcome \in LiveOutcomes : WorkerBuildEnd(drv_path, outcome)

\* the webhook, the queue, the executor and its workers
WebhookSpec == Init /\ [][WebhookNext]_vars

(***************************************************************************)
(* CacheClient (src/src/cache/mod.rs).  An output is given by what the     *)
(* nix path-info command does for it: it exits with success ("found"),     *)
(* exits with a failure ("missing"), or cannot be executed ("error").      *)
(***************************************************************************)
PathInfo == {"found", "missing", "error"}

\* CacheClient::path_exists
path_exists(output) ==
    CASE output = "found"   -> "Ok(true)"
      [] output = "missing" -> "Ok(false)"
      [] output = "error"   -> "Err"

\* derivation_cached with the ? operator on path_exists
RECURSIVE derivation_cached_propagating(_, _)
derivation_cached_propagating(outputs, k) ==
    IF k > Len(outputs) THEN [ret |-> "Ok(true)", queried |-> 0]
    ELSE LET found == path_exists(outputs[k])
             rest == derivation_cached_propagating(outputs, k + 1)
         IN  CASE found = "Ok(true)"  -> [rest EXCEPT !.queried = @ + 1]
               [] found = "Ok(false)" -> [ret |-> "Ok(false)", queried |-> 1]
               [] found = "Err"       -> [ret |-> "Err", queried |-> 1]

\* CacheClient::derivation_cached: the loop over the outputs, from the
\* output k on; queried counts the path_exists calls
RECURSIVE derivation_cached(_, _)
derivation_cached(outputs, k) ==
    IF k > Len(outputs) THEN [ret |-> "Ok(true)", queried |-> 0]
    ELSE LET found == path_exists(outputs[k])
             rest == derivation_cached(outputs, k + 1)
         IN  CASE found = "Ok(true)"  -> [rest EXCEPT !.queried = @ + 1]
               [] found = "Ok(false)" -> [ret |-> "Ok(false)", queried |-> 1]
               [] found = "Err"       -> [ret |-> "Ok(false)", queried |-> 1]

\* a call of derivation_cached
DerivationCached(outputs) ==
    LET r == derivation_cached(outputs, 1)
    IN  /\ last' = [NoCall EXCEPT !.op = "derivation_cached", !.outputs = outputs,
                                  !.ret = r.ret, !.queried = r.queried]
        /\ QueueUnchanged
        /\ UNCHANGED <<poisoned, handed_out, reported, complete_on_add, n_adds, n_calls,
                       ready_signal>>
        /\ UNCHANGED exec_vars
        /\ UNCHANGED sync_vars /\ UNCHANGED db_vars

CacheNext == \E outputs \in SeqsUpTo(PathInfo, MaxQueried) : DerivationCached(outputs)

\* the cache adapter asked about every list of outputs
CacheSpec == Init /\ [][CacheNext]_vars

(***************************************************************************)
(* Views of the current state used by the properties.                      *)
(***************************************************************************)
Nodes == LiveNodes(State)

Status(i) == dag_nodes[i].status

Pending(w) == IF w \in DOMAIN pending_workflows THEN pending_workflows[w] ELSE 0

JobsOf(w) == {i \in Nodes : w \in dag_nodes[i].requested_by}

InReady(i) == \E k \in 1..Len(ready) : ready[k] = i

Parents(i) == {e[1] : e \in {x \in EdgeSet(edges) : x[2] = i}}

\* successful and cached builds
ok(status) == status \in {"Success", "Cached"}

\* the step just taken spawns the worker task for the job d
SpawnStep(d) ==
    /\ exec_pc = "acquire"
    /\ exec_pc' = "top"
    /\ last'.op = "spawn"
    /\ last'.drv_path = d

\* the step just taken is update_status(d, st) on a node of the DAG
UpdateStep(d, st) ==
    /\ d \in DOMAIN drv_to_node
    /\ last'.op = "update_status"
    /\ last'.drv_path = d
    /\ last'.status = st
    /\ n_calls' = n_calls + 1

(***************************************************************************)
(* Properties                                                              *)
(***************************************************************************)

\* C1: every handle in the ready set is a node with status Ready and no
\* incoming edge, and every such node that has not been handed out by
\* drain_ready_jobs is in the ready set.
C1_ReadySetIsTheReadyJobs ==
    ~poisoned =>
        /\ \A k \in 1..Len(ready) :
              /\ ready[k] \in Nodes
              /\ Status(ready[k]) = "Ready"
              /\ Parents(ready[k]) = {}
        /\ \A i \in Nodes :
              (Status(i) = "Ready" /\ Parents(i) = {} /\ handed_out[i] = 0) => InReady(i)

\* C2: for every workflow w, pending[w] (a missing entry counting as zero) is
\* the number of non-terminal jobs that list w in requested_by.
C2_PendingIsNonTerminalCount ==
    ~poisoned =>
        \A w \in Workflows :
            Pending(w) = Cardinality({i \in JobsOf(w) : ~done(Status(i))})

\* C3: a job whose status is terminal keeps that status in every later step.
C3_TerminalStatusIsFinal ==
    [][\A i \in Nodes :
          (done(Status(i)) /\ dag_nodes'[i].live)
              => dag_nodes'[i].status = Status(i)]_vars

\* C4: a workflow is returned as completed by at most one update_status call,
\* and it has been returned once all the jobs it requested are terminal
\* (unless an add_workflow call already answered that it is complete).
C4_CompletionSignaledExactlyOnce ==
    ~poisoned =>
        \A w \in Workflows :
            /\ reported[w] <= 1
            /\ (/\ JobsOf(w) # {}
                /\ \A i \in JobsOf(w) : done(Status(i))
                /\ complete_on_add[w] = 0)
                   => reported[w] = 1

\* C5: in the state right after a call that reports workflow w complete
\* (update_status returning w, add_workflow returning true), pending[w] is
\* zero and every job that lists w in requested_by is terminal.
C5_CompleteOnlyWhenAllJobsTerminal ==
    ~poisoned =>
        \A w \in Workflows :
            (\/ last.op = "update_status" /\ last.completed[w] > 0
             \/ last.op = "add_workflow" /\ last.workflow_id = w /\ last.complete)
                => /\ Pending(w) = 0
                   /\ \A i \in JobsOf(w) : done(Status(i))

\* C6: right after update_status(d, terminal-err) every descendant of the job
\* (along the outgoing edges before the call) is Canceled if it was
\* non-terminal before the call, and unchanged if it was terminal.
C6_CancellationClosure ==
    [][\A d \in Drvs, st \in {x \in StatusInputs : error(x)} :
          (UpdateStep(d, st) /\ ~poisoned')
              => \A j \in Descendants(edges, drv_to_node[d]) :
                    dag_nodes'[j].status =
                        IF done(Status(j)) THEN Status(j) ELSE "Canceled"]_vars

\* C7: when update_status(d, terminal-err) meets a job with a descendant that
\* is reachable by more than one path, all of them non-terminal and the
\* counters exact, the call returns, has transitioned each descendant once,
\* and has returned once each workflow whose unfinished jobs they all were,
\* leaving it no pending entry.
C7_MultiPathCascadeCancelsOnce ==
    [][\A d \in Drvs, st \in {x \in StatusInputs : error(x)} :
          LET id == drv_to_node[d]
              sub == Descendants(edges, id) \cup {id}
              c == update_status(State, d, st)
          IN  (/\ UpdateStep(d, st)
               /\ \E j \in sub : Cardinality(Parents(j) \cap sub) > 1
               /\ \A j \in sub : ~done(Status(j))
               /\ C2_PendingIsNonTerminalCount)
                  => /\ ~poisoned'
                     /\ \A j \in sub \ {id} :
                           c.visits[j] = 1 /\ dag_nodes'[j].status = "Canceled"
                     /\ \A w \in Workflows :
                           ({i \in JobsOf(w) : ~done(Status(i))} = sub)
                               => c.completed[w] = 1 /\ w \notin DOMAIN pending_workflows']_vars

\* C8: an add_workflow call that repeats the call before it (same derivations,
\* same workflow) leaves the workflow's pending counter as it was.
C8_ReinsertionKeepsCounters ==
    [][(/\ last.op = "add_workflow"
        /\ last'.op = "add_workflow"
        /\ n_calls' = n_calls + 1
        /\ last'.workflow_id = last.workflow_id
        /\ last'.derivations = last.derivations
        /\ ~poisoned')
           => Pending(last.workflow_id)' = Pending(last.workflow_id)]_vars

\* C9: no job has been returned by drain_ready_jobs more than once since it
\* was added.
C9_DrainedAtMostOnce ==
    \A i \in Nodes : handed_out[i] <= 1

\* C10: a Queued job has an incoming edge from a non-terminal node, and a
\* non-terminal job with such an edge is Queued.
C10_QueuedIffUnmetPrerequisite ==
    ~poisoned =>
        \A i \in Nodes :
            Status(i) = "Queued"
                <=> (~done(Status(i)) /\ \E p \in Parents(i) : ~done(Status(p)))

\* C11: when the executor starts the worker task of a job, every prerequisite
\* of the job in the DAG (every source of an incoming edge) is Success or
\* Cached.
C11_BuildStartsAfterPrerequisites ==
    [][\A d \in Drvs :
          (SpawnStep(d) /\ d \in DOMAIN drv_to_node)
              => \A p \in Parents(drv_to_node[d]) : ok(Status(p))]_vars

\* the number of entries of the ready vector rdy that are the handle i
Entries(rdy, i) == Cardinality({k \in 1..Len(rdy) : rdy[k] = i})

\* C12: right after update_status(d, terminal-ok) the job has no outgoing
\* edge; a child that is left without incoming edge and was non-terminal is
\* Ready and has been added once to the ready set; every other child (one
\* that keeps an incoming edge, or a terminal one) has the status it had and
\* has not been added to the ready set.
C12_SuccessPromotesChildren ==
    [][\A d \in Drvs, st \in {x \in StatusInputs : ok(x)} :
          (UpdateStep(d, st) /\ ~poisoned')
              => LET id == drv_to_node[d]
                     children == {e[2] : e \in {x \in EdgeSet(edges) : x[1] = id}}
                 IN  /\ \A e \in EdgeSet(edges') : e[1] # id
                     /\ \A n \in children :
                           IF Parents(n) = {id} /\ ~done(Status(n))
                           THEN /\ dag_nodes'[n].status = "Ready"
                                /\ Entries(ready', n) = Entries(ready, n) + 1
                           ELSE /\ dag_nodes'[n].status = Status(n)
                                /\ Entries(ready', n) = Entries(ready, n)]_vars

\* C13: when update_status(d, terminal) is applied to a non-terminal job that
\* two workflows request, the pending counter of each of them goes down (by
\* one when the status is terminal-ok), and each of them whose other jobs
\* are all terminal is returned once as completed and left with no pending
\* job.
C13_SharedJobCountsOncePerWorkflow ==
    [][\A d \in Drvs, st \in {x \in StatusInputs : done(x)} :
          LET id == drv_to_node[d]
          IN  (/\ UpdateStep(d, st)
               /\ ~poisoned'
               /\ ~done(Status(id))
               /\ Cardinality(dag_nodes[id].requested_by) = 2)
                  => \A w \in dag_nodes[id].requested_by :
                        /\ Pending(w)' < Pending(w)
                        /\ ok(st) => Pending(w)' = Pending(w) - 1
                        /\ (\A i \in JobsOf(w) \ {id} : done(Status(i)))
                              => last'.completed[w] = 1 /\ Pending(w)' = 0]_vars

\* C14: in the state right after an add_workflow call for workflow w that
\* returned, the value it returned is true exactly when pending[w] (a
\* missing entry counting as zero) is zero.
C14_AddReturnsPendingIsZero ==
    (last.op = "add_workflow" /\ ~last.panicked)
        => (last.complete <=> Pending(last.workflow_id) = 0)

\* the step just taken is an add_workflow call
AddStep ==
    /\ last'.op = "add_workflow"
    /\ n_adds' = n_adds + 1

\* C15: right after an add_workflow call that returned, every derivation of
\* the batch that was no node before the call and has empty input_drvs (at
\* its first occurrence in the batch) is a node with status Ready, its
\* handle is in the ready set, and the ready signal is set.
C15_NewRootIsReadyAtOnce ==
    [][(AddStep /\ ~poisoned')
          => \A k \in 1..Len(last'.derivations) :
                LET d == last'.derivations[k]
                IN  (/\ d.drv_path \notin DOMAIN drv_to_node
                     /\ \A j \in 1..(k - 1) : last'.derivations[j].drv_path # d.drv_path
                     /\ d.input_drvs = <<>>)
                        => /\ d.drv_path \in DOMAIN drv_to_node'
                           /\ dag_nodes'[drv_to_node'[d.drv_path]].status = "Ready"
                           /\ Entries(ready', drv_to_node'[d.drv_path]) >= 1
                           /\ ready_signal']_vars

\* the first call of a run was add_workflow of a batch of two new
\* derivations, the first without inputs and the second with one, and the
\* first is Ready, in the ready set and signaled
C15_Witness ==
    /\ n_calls = 1
    /\ last.op = "add_workflow"
    /\ ~poisoned
    /\ Len(last.derivations) = 2
    /\ last.derivations[1].input_drvs = <<>>
    /\ last.derivations[2].input_drvs # <<>>
    /\ Status(drv_to_node[last.derivations[1].drv_path]) = "Ready"
    /\ InReady(drv_to_node[last.derivations[1].drv_path])
    /\ ready_signal

\* C16: an add_workflow call whose batch declares an input that is neither a
\* derivation of the batch nor a node of the DAG returns, leaves the queue
\* usable, and has inserted every derivation of the batch.
C16_UnknownInputIsSkipped ==
    [][(/\ AddStep
        /\ \E k \in 1..Len(last'.derivations) :
              \E j \in 1..Len(last'.derivations[k].input_drvs) :
                 /\ last'.derivations[k].input_drvs[j] \notin DOMAIN drv_to_node
                 /\ \A m \in 1..Len(last'.derivations) :
                       last'.derivations[m].drv_path # last'.derivations[k].input_drvs[j])
           => /\ ~last'.panicked
              /\ ~poisoned'
              /\ \A k \in 1..Len(last'.derivations) :
                    last'.derivations[k].drv_path \in DOMAIN drv_to_node']_vars

\* the step just taken is clear_workflow(w)
ClearStep(w) ==
    /\ last'.op = "clear_workflow"
    /\ last'.workflow_id = w
    /\ n_calls' = n_calls + 1

\* C17: clear_workflow(w) deletes the nodes that only w requested, with their
\* map entries and edges, and leaves every other node as it was except that
\* w is no longer in its requested_by; the edges between the remaining nodes
\* stay.  From then on, until add_workflow is called for w again, no job
\* lists w and no update_status returns w as completed.
C17_ClearRemovesOnlyOwnNodes ==
    [][\A w \in Workflows :
          /\ ClearStep(w) =>
                LET kept == {i \in Nodes : dag_nodes[i].requested_by \ {w} # {}}
                IN  /\ LiveNodes([dag_nodes |-> dag_nodes']) = kept
                    /\ \A i \in kept :
                          /\ dag_nodes'[i] =
                                [dag_nodes[i] EXCEPT !.requested_by = @ \ {w}]
                          /\ dag_nodes[i].drv_path \in DOMAIN drv_to_node'
                          /\ drv_to_node'[dag_nodes[i].drv_path] = i
                    /\ \A i \in Nodes \ kept :
                          dag_nodes[i].drv_path \notin DOMAIN drv_to_node'
                    /\ EdgeSet(edges') =
                          {e \in EdgeSet(edges) : e[1] \in kept /\ e[2] \in kept}
                    /\ reported' = reported
          /\ (JobsOf(w) = {} /\ ~(AddStep /\ last'.workflow_id = w))
                => /\ JobsOf(w)' = {}
                   /\ last'.completed[w] = 0
                   /\ reported'[w] = reported[w]]_vars

\* a terminal update_status on a node that is left after a clear_workflow
\* deleted another one: the cleared workflow lists no job, still has its
\* pending entry, and was not returned
C17_Witness ==
    /\ last.op = "update_status"
    /\ done(last.status)
    /\ last.drv_path \in DOMAIN drv_to_node
    /\ ~poisoned
    /\ free_node # <<>>
    /\ \E w \in Workflows :
          /\ JobsOf(w) = {}
          /\ w \in DOMAIN pending_workflows
          /\ last.completed[w] = 0
          /\ reported[w] = 0

\* C18: in the state right after clear_workflow(w) the pending map has no
\* entry for w.
C18_ClearRemovesPendingEntry ==
    last.op = "clear_workflow" => last.workflow_id \notin DOMAIN pending_workflows

\* C19: update_status for a path that is no node of the DAG returns an empty
\* list and leaves the nodes, their statuses, the edges, the ready set and
\* the pending counters as they were.
C19_UnknownPathIsNoOp ==
    [][\A d \in Drvs :
          (/\ last'.op = "update_status"
           /\ last'.drv_path = d
           /\ n_calls' = n_calls + 1
           /\ d \notin DOMAIN drv_to_node)
              => /\ ~last'.panicked
                 /\ ~poisoned'
                 /\ last'.completed = NoCompletions
                 /\ reported' = reported
                 /\ dag_nodes' = dag_nodes
                 /\ free_node' = free_node
                 /\ edges' = edges
                 /\ drv_to_node' = drv_to_node
                 /\ ready' = ready
                 /\ pending_workflows' = pending_workflows]_vars

\* update_status(d, Success) arrived for a path that is no node, after the
\* only job there ever was has been deleted by clear_workflow
C19_Witness ==
    /\ last.op = "update_status"
    /\ last.status = "Success"
    /\ last.drv_path \notin DOMAIN drv_to_node
    /\ ~poisoned
    /\ Len(dag_nodes) = 1
    /\ free_node = <<1>>
    /\ last.completed = NoCompletions

\* C20: a drain_ready_jobs call that returns gives back, entry by entry, the
\* jobs the handles of the ready vector referred to when it was called,
\* with the status they had, leaves the ready vector empty, and changes no
\* node, status, edge or pending counter.
C20_DrainReturnsReadyAndChangesNothingElse ==
    [][(/\ last'.op = "drain_ready_jobs"
        /\ n_calls' = n_calls + 1
        /\ ~poisoned')
           => /\ ready' = <<>>
              /\ dag_nodes' = dag_nodes
              /\ free_node' = free_node
              /\ edges' = edges
              /\ drv_to_node' = drv_to_node
              /\ pending_workflows' = pending_workflows
              /\ LET ret == drain_ready_jobs(State).ret
                 IN  /\ Len(ret) = Len(ready)
                     /\ \A k \in 1..Len(ready) :
                           /\ ready[k] \in Nodes
                           /\ ret[k] = dag_nodes[ready[k]]]_vars

\* a drain_ready_jobs call has just returned two jobs, one Ready and one that
\* is not, and the ready vector is empty
C20_Witness ==
    /\ last.op = "drain_ready_jobs"
    /\ ~poisoned
    /\ ready = <<>>
    /\ \E i, j \in Nodes :
          /\ handed_out[i] >= 1 /\ Status(i) = "Ready"
          /\ handed_out[j] >= 1 /\ Status(j) # "Ready"

\* C21: whenever the ready set is not empty, the executor eventually drains
\* it.
C21_NoWakeupIsLost ==
    (ready # <<>>) ~> (ready = <<>>)

\* C22: when the executor, woken from wait_for_ready_jobs, drains an empty
\* ready set, it goes back to the head of its loop (and waits again); it
\* does not stop.
C22_EmptyDrainGoesBackToWaiting ==
    [][(/\ exec_pc = "drain"
        /\ exec_pc' # "drain"
        /\ ~poisoned
        /\ ready = <<>>)
           => (exec_pc' = "top" /\ run_queue' = <<>>)]_vars

\* the number of worker tasks that have been spawned and have not ended
Running ==
    LET WorkersOf(d) == workers[d].cache + workers[d].build
    IN  WorkersOf("a") + WorkersOf("b") + WorkersOf("c")

\* C23: the number of worker tasks between their spawn and their end never
\* exceeds max_concurrent_builds.
C23_AtMostMaxConcurrentWorkers ==
    Running <= max_concurrent_builds

\* every slot is taken and the executor holds a further Ready job, suspended
\* in acquire_owned
C23_Witness ==
    /\ Running = max_concurrent_builds
    /\ exec_pc = "acquire"
    /\ exec_job.status = "Ready"

\* C24: the free slots and the live worker tasks always add up to
\* max_concurrent_builds (every worker that ended, on whichever path, gave
\* its slot back; with no worker running all slots are free), and an
\* executor suspended in acquire_owned eventually gets a slot.
C24_NoSlotIsLeaked ==
    /\ [](semaphore + Running = max_concurrent_builds)
    /\ (exec_pc = "acquire") ~> (exec_pc = "top")

\* the executor holds a Ready job with no slot free, while one worker is in
\* its build command and another has not yet queried the cache
C24_Witness ==
    /\ exec_pc = "acquire"
    /\ semaphore = 0
    /\ \E d \in Drvs : workers[d].build > 0
    /\ \E d \in Drvs : workers[d].cache > 0

\* the status the scheduler holds for the path d, "" when d is no node
StatusOf(d) == IF d \in DOMAIN drv_to_node THEN Status(drv_to_node[d]) ELSE ""

\* C25: a job whose status in the scheduler is terminal-err is not taken for
\* dispatch when the executor pops it, and a worker whose job is terminal-err
\* in the scheduler when it starts leaves that status as it is.
C25_CanceledJobIsSkipped ==
    [][/\ (exec_pc \in {"top", "drain"} /\ exec_pc' = "acquire")
            => ~error(StatusOf(exec_job'.drv_path))
       /\ \A d \in Drvs :
             (/\ workers'[d].cache < workers[d].cache
              /\ ~poisoned
              /\ error(StatusOf(d)))
                 => dag_nodes'[drv_to_node[d]].status = StatusOf(d)]_vars

\* the step just taken is the update_status call that ends the worker of
\* the job d, on a node of the DAG, after a build command that ended in result
BuildEndStep(d, result) ==
    /\ workers'[d].build < workers[d].build
    /\ last'.result = result
    /\ ~last'.panicked
    /\ ~poisoned'
    /\ d \in DOMAIN drv_to_node

\* C26: when the build of a job runs into the timeout, the status its worker
\* applies is Timedout, the job is Timedout afterwards, and every descendant
\* of the job that was not terminal is Canceled.
C26_TimeoutAppliesTimedOut ==
    [][\A d \in Drvs :
          BuildEndStep(d, "timeout")
              => /\ last'.status = "Timedout"
                 /\ dag_nodes'[drv_to_node[d]].status = "Timedout"
                 /\ \A n \in Descendants(edges, drv_to_node[d]) :
                       ~done(Status(n)) => dag_nodes'[n].status = "Canceled"]_vars

\* the step just taken is the update_status call of the worker of the job
\* d, a node of the DAG, after a cache query that found every output
CacheHitStep(d) ==
    /\ workers'[d].cache < workers[d].cache
    /\ last'.status = "Cached"
    /\ ~last'.panicked
    /\ ~poisoned'
    /\ d \in DOMAIN drv_to_node

\* C27: when the cache holds every output of a dispatched job, the one status
\* its worker applies is Cached and the job is Cached afterwards; the worker
\* ends there, with no build command started and no upload attempted; and
\* every workflow whose only non-terminal job was that job is returned as
\* completed.
C27_CacheHitSkipsBuildAndCompletes ==
    [][\A d \in Drvs :
          CacheHitStep(d)
              => LET id == drv_to_node[d]
                 IN  /\ dag_nodes'[id].status = "Cached"
                     /\ workers'[d] = [workers[d] EXCEPT !.cache = @ - 1]
                     /\ last'.result = "" /\ last'.attempted = 0
                     /\ \A w \in Workflows :
                           (/\ id \in JobsOf(w)
                            /\ ~done(Status(id))
                            /\ \A i \in JobsOf(w) \ {id} : done(Status(i)))
                               => last'.completed[w] > 0]_vars

C29_BuildStartedAtMostOnce ==
    \A d \in Drvs : workers[d].started <= 1

\* the queue state that the calls that have returned left
Committed == IF mutex.held THEN mutex.before ELSE State

\* C30: the jobs a get_jobs or get_workflow_jobs call returns, and the batch
\* a drain_ready_jobs call returns, are those of a queue state between two
\* calls, never those of the state inside an update_status call (the status
\* assigned, the counters and the descendants not yet updated).
C30_OperationsAreAtomic ==
    [][/\ last'.op = "get_jobs" => snapshot' = get_jobs(Committed)
       /\ \A w \in Workflows :
             (last'.op = "get_workflow_jobs" /\ last'.workflow_id = w)
                 => snapshot' = get_workflow_jobs(Committed, w)
       /\ (last'.op = "drain_ready_jobs" /\ ~last'.panicked)
             => drain_ready_jobs(State).ret = drain_ready_jobs(Committed).ret]_vars

\* get_jobs has just returned a failed job together with its canceled child
C30_Witness ==
    /\ last.op = "get_jobs"
    /\ ~mutex.held
    /\ \E i, k \in 1..Len(snapshot) :
          /\ snapshot[i].status = "Failed"
          /\ snapshot[k].status = "Canceled"
          /\ snapshot = get_jobs(State)

\* C35: while the queue is usable every handle in the ready set is a node of
\* the DAG, and no drain_ready_jobs call panics.
C35_ReadyHandlesAreLive ==
    /\ ~poisoned => \A k \in 1..Len(ready) : IsNode(State, ready[k])
    /\ ~(last.op = "drain_ready_jobs" /\ last.panicked)

\* C36: every job that a drain_ready_jobs call hands to the executor (the
\* only source of its local queue) is terminal-err or Ready, so that the
\* assertion on the status of a popped job holds.
C36_PoppedJobIsReadyOrSkipped ==
    [][(/\ exec_pc = "drain"
        /\ ~poisoned
        /\ ~drain_ready_jobs(State).panicked)
           => \A k \in 1..Len(drain_ready_jobs(State).ret) :
                 LET job == drain_ready_jobs(State).ret[k]
                 IN  error(job.status) \/ job.status = "Ready"]_vars

\* the queue can be used and the executor task is alive
InService == ~poisoned /\ exec_pc # "dead"

\* C37: as long as no call has panicked, every job that is in the DAG
\* eventually has a terminal status, and every workflow that requests a job
\* is eventually reported complete (by an update_status call or by its
\* add_workflow call).
C37_EveryJobAndWorkflowFinishes ==
    /\ \A d \in Drvs :
          (d \in DOMAIN drv_to_node) ~> (done(StatusOf(d)) \/ ~InService)
    /\ \A w \in LiveWorkflows :
          (JobsOf(w) # {}) ~> (reported[w] + complete_on_add[w] > 0 \/ ~InService)

\* no edge of the DAG closes a path from its target back to its source
Acyclic == \A e \in EdgeSet(edges) : ~WouldCycle(remove_edge(edges, e), e[1], e[2])

\* every input the batch lists is a derivation of the batch or of the DAG
InputsKnown(derivations) ==
    \A k \in 1..Len(derivations) :
        \A j \in 1..Len(derivations[k].input_drvs) :
            \/ derivations[k].input_drvs[j] \in DOMAIN drv_to_node
            \/ \E m \in 1..Len(derivations) :
                  derivations[m].drv_path = derivations[k].input_drvs[j]

\* C34: the DAG is acyclic in every state, and an add_workflow call whose
\* batch lists only known inputs returns, also when its edges would close a
\* cycle: the queue can be used afterwards.
C34_CycleIsRejected ==
    /\ [](~poisoned => Acyclic)
    /\ [][(last'.op = "add_workflow" /\ InputsKnown(last'.derivations))
             => (~last'.panicked /\ ~poisoned')]_vars

\* C33: derivation_cached never returns an error; it returns true exactly
\* when every output is found (so for the empty list), and it has queried
\* the outputs up to the first one that is missing or whose query failed,
\* all of them when there is none.
C33_DerivationCached ==
    last.op = "derivation_cached" =>
        LET outputs == last.outputs
            misses == {k \in 1..Len(outputs) : outputs[k] # "found"}
        IN  /\ last.ret = (IF misses = {} THEN "Ok(true)" ELSE "Ok(false)")
            /\ last.queried = (IF misses = {} THEN Len(outputs)
                               ELSE CHOOSE k \in misses : \A m \in misses : k <= m)

\* the call met a query error on the second of several outputs
C33_Witness ==
    /\ last.op = "derivation_cached"
    /\ Len(last.outputs) > 2
    /\ last.outputs[1] = "found"
    /\ last.outputs[2] = "error"
    /\ last.ret = "Ok(false)"
    /\ last.queried = 2

\* C31: the row of a workflow is Pending when create_workflow has inserted
\* it and Running when process_workflow has started, and in the state after
\* an update_status call that returned the workflow as completed the row is
\* Completed or Failed.
C31_WorkflowRowFollowsTheScheduler ==
    [][\A w \in Workflows :
          /\ (last'.op = "create_workflow" /\ last'.workflow_id = w)
                => workflows'[w] = "Pending"
          /\ (last'.op = "process_workflow" /\ last'.workflow_id = w)
                => workflows'[w] = "Running"
          /\ (last'.op = "update_status" /\ last'.completed[w] > 0)
                => workflows'[w] \in {"Completed", "Failed"}]_vars

\* C32: when evaluate_repository fails for a workflow, no job of the workflow
\* is in the queue and the row of the workflow is Failed.
C32_EvaluatorFailureFailsTheWorkflow ==
    [][\A w \in Workflows :
          (/\ last'.op = "evaluate_repository"
           /\ last'.workflow_id = w
           /\ last'.ret = "Err")
              => /\ JobsOf(w)' = {}
                 /\ workflows'[w] = "Failed"]_vars

====
